---------------------------- MODULE Spec2Model ----------------------------
(***************************************************************************)
(* EcoEats: a Streamlit food-waste tracker kept in several near-duplicate  *)
(* variants (app8, app10, app11, app17, backup/app21, ecoeats).  Every     *)
(* variant persists rows in the SQLite file ecoeats.db, gates its pages    *)
(* (app8, app10, app17) behind a hardcoded login, and wraps each call to   *)
(* the LLM provider in a blanket try/except.                               *)
(*                                                                         *)
(* One script run of a variant is one action.  Text columns whose order    *)
(* matters (dates) are sequences of character codes, compared the way      *)
(* SQLite's BINARY collation compares them.                                *)
(***************************************************************************)
EXTENDS Integers, Sequences, FiniteSets, TLC

(***************************************************************************)
(* Bounds of the model.                                                    *)
(***************************************************************************)
\* days the clock of the page specification may advance
MaxDay == 1
\* rows the page operations may insert, all tables together
MaxRows == 1
\* likes one post may collect
MaxLikes == 2
\* days the clock of the weekly report specification may advance
ReportDays == 8
\* food_waste rows of the weekly report specification
ReportRows == 2
\* rows of the users table
MaxUsers == 2
\* rows stored per table of the schema specification
MaxStored == 2
\* days the clock of the streak specification may advance
StreakDays == 30
MaxStreak == 40
ChallengeClock == 9
MaxGoals == 2
MaxPosts == 2
MaxSessions == 2
RaceDays == 3

(***************************************************************************)
(* Program constants.                                                      *)
(***************************************************************************)
\* date('now', '-7 days')
WindowDays == 7
\* end_date = start_date + timedelta(days=7)
ChallengeDays == 7
\* st.session_state.user_id = 1
DemoUserId == 1
\* ORDER BY date DESC LIMIT 5
RecentLimit == 5

(***************************************************************************)
(* The calendar: datetime.date arithmetic, strftime("%Y-%m-%d") /          *)
(* date.isoformat(), strptime and datetime.isoformat().                    *)
(***************************************************************************)
IsLeap(y) ==
    (y % 4 = 0 /\ y % 100 # 0) \/ y % 400 = 0

DaysInMonth(y, m) ==
    IF m = 2 THEN (IF IsLeap(y) THEN 29 ELSE 28)
    ELSE IF m \in {4, 6, 9, 11} THEN 30 ELSE 31

NextYmd(r) ==
    IF r.d < DaysInMonth(r.y, r.m) THEN [r EXCEPT !.d = r.d + 1]
    ELSE IF r.m < 12 THEN [y |-> r.y, m |-> r.m + 1, d |-> 1]
    ELSE [y |-> r.y + 1, m |-> 1, d |-> 1]

\* the day the clocks of the model start at is EpochYmd + WindowDays
EpochYmd == [y |-> 2024, m |-> 2, d |-> 21]

\* the longest clock of the specifications
LastDay ==
    IF ReportDays > MaxDay
    THEN (IF ReportDays > StreakDays THEN ReportDays ELSE StreakDays)
    ELSE (IF MaxDay > StreakDays THEN MaxDay ELSE StreakDays)

\* ordinals of the calendar window: day 0 is the first "today"
Days == (0 - WindowDays) .. (LastDay + ChallengeDays)

RECURSIVE AddDays(_, _)
AddDays(r, k) ==
    IF k = 0 THEN r ELSE AddDays(NextYmd(r), k - 1)

\* date.fromordinal
YmdAt ==
    [n \in Days |-> AddDays(EpochYmd, n + WindowDays)]

\* date.toordinal
OrdinalOf(r) ==
    CHOOSE n \in Days : YmdAt[n] = r

Chr(digit) == 48 + digit
Dash == 45
LetterT == 84

\* strftime("%Y-%m-%d"), date.isoformat(): "YYYY-MM-DD"
DateStr(n) ==
    LET r == YmdAt[n]
    IN  << Chr(r.y \div 1000), Chr((r.y \div 100) % 10), Chr((r.y \div 10) % 10),
           Chr(r.y % 10), Dash, Chr(r.m \div 10), Chr(r.m % 10), Dash,
           Chr(r.d \div 10), Chr(r.d % 10) >>

\* datetime.strptime(s, "%Y-%m-%d").date(), as an ordinal
ParseDate(s) ==
    LET v(i) == s[i] - 48
    IN  OrdinalOf([y |-> 1000 * v(1) + 100 * v(2) + 10 * v(3) + v(4),
                   m |-> 10 * v(6) + v(7),
                   d |-> 10 * v(9) + v(10)])

\* datetime.now().isoformat(): the date, "T" and the time of day (the hour)
IsoStr(n, hour) ==
    DateStr(n) \o << LetterT, Chr(hour \div 10), Chr(hour % 10) >>

\* SQLite DATE(text): the date part of an ISO timestamp
SqlDate(s) ==
    SubSeq(s, 1, 10)

\* SQLite's BINARY collation on TEXT: memcmp, then the shorter string first
RECURSIVE StrLess(_, _)
StrLess(a, b) ==
    IF b = << >> THEN FALSE
    ELSE IF a = << >> THEN TRUE
    ELSE IF Head(a) # Head(b) THEN Head(a) < Head(b)
    ELSE StrLess(Tail(a), Tail(b))

StrGeq(a, b) == ~StrLess(a, b)

(***************************************************************************)
(* State.                                                                  *)
(***************************************************************************)
VARIABLES
    variant,          \* the variant whose script runs against ecoeats.db
    session,          \* st.session_state of the browser session
    choice,           \* value of the sidebar selectbox "Go to"
    today,            \* datetime.now().date(), as an ordinal
    food_waste,       \* table food_waste
    meals,            \* table meals
    goals,            \* table goals
    challenges,       \* table challenges
    community_posts,  \* table community_posts
    user_stats,       \* table user_stats
    shown,            \* what the last script run rendered
    users,            \* table users (app8, app10)
    columns,          \* the columns of each table of ecoeats.db
    result,           \* outcome of the last function call made on its own
    cache             \* st.cache_data entries of generate_ai_response

pageVars == << variant, session, choice, today, food_waste, meals, goals,
               challenges, community_posts, user_stats, shown >>

\* state the page runs never write
aux == << users, columns, result, cache >>

vars == << pageVars, aux >>

(***************************************************************************)
(* The variants and what tells them apart.                                 *)
(***************************************************************************)
Variants == {"app8", "app10", "app11", "app17"}

\* app8 and app10 keep a user_id column in every table and filter by it
Scoped(v) == v \in {"app8", "app10"}

\* the session key main() tests before it shows the pages
Gate(v) ==
    IF v \in {"app8", "app10"} THEN "user_id"
    ELSE IF v = "app17" THEN "logged_in"
    ELSE "none"

\* the hardcoded pair of login_page / login
Credentials(v) ==
    IF v = "app10" THEN << "kanwal", "swapnil87" >>
    ELSE IF v = "app8" THEN << "smorande", "krystal3Z" >>
    ELSE << "kanwal", "swapnil" >>

Usernames == {"kanwal", "smorande"}
Passwords == {"swapnil87", "krystal3Z", "swapnil"}

Menu == {"Home", "Food Waste", "Healthy Eating", "Weekly Report",
         "Sustainability", "Goals", "Community"}

Items == {"apple"}
Quantities == {10}
MealTexts == {"salad"}
GoalTypes == {"Healthy Eating"}
GoalTexts == {"eat greens"}
PostTexts == {"tip"}
Noon == 12

\* what generate_ai_response returns: the model's reply or the canned fallback
Fallback == "I'm sorry, I couldn't generate a response at this time."
AiReplies == {"reply", Fallback}

\* current_challenge = (None, ...): the id of a challenge made in this run
NoneId == 0
NoUser == 0

EmptySession == [k \in {} |-> FALSE]

Put(s, k, val) ==
    [x \in DOMAIN s \cup {k} |-> IF x = k THEN val ELSE s[x]]

Del(s, k) ==
    [x \in DOMAIN s \ {k} |-> s[x]]

\* if 'logged_in' not in st.session_state: st.session_state.logged_in = False
Prelude(v, s) ==
    IF Gate(v) = "logged_in" /\ "logged_in" \notin DOMAIN s
    THEN Put(s, "logged_in", FALSE)
    ELSE s

\* main(): if 'user_id' not in st.session_state / if not logged_in: login page
GateOpen(v, s) ==
    IF Gate(v) = "user_id" THEN "user_id" \in DOMAIN s
    ELSE IF Gate(v) = "logged_in" THEN "logged_in" \in DOMAIN s /\ s["logged_in"]
    ELSE TRUE

\* the user id the page functions are called with
Uid(v, s) ==
    IF Scoped(v) THEN s["user_id"] ELSE NoUser

\* a login that compares the username only
CheckLoginNameOnly(v, u, p) ==
    u = Credentials(v)[1]

\* if username == "kanwal" and password == "swapnil87":
CheckLogin(v, u, p) ==
    u = Credentials(v)[1] /\ p = Credentials(v)[2]

(***************************************************************************)
(* Rows.  INTEGER PRIMARY KEY: a new row takes the largest id plus one.    *)
(***************************************************************************)
MaxOf(S) == CHOOSE n \in S : \A m \in S : m <= n

NewId(rows) ==
    IF rows = {} THEN 1 ELSE MaxOf({r.id : r \in rows}) + 1

\* the user_id column of app8 / app10
Owned(v, uid, r) ==
    IF Scoped(v) THEN r @@ [user_id |-> uid] ELSE r

\* a query without its WHERE user_id=?
MineAll(v, uid, rows) == rows

\* WHERE user_id=?
Mine(v, uid, rows) ==
    IF Scoped(v) THEN {r \in rows : r.user_id = uid} ELSE rows

\* the ids of the rows of a table: the session's rows, after one older row
RowIds == 1 .. (MaxRows + 1)

\* the rows of the user login_page logs in
Stored(rows) == Mine(variant, DemoUserId, rows)

TotalRows ==
    Cardinality(Stored(food_waste)) + Cardinality(Stored(meals))
        + Cardinality(Stored(goals)) + Cardinality(Stored(challenges))
        + Cardinality(Stored(community_posts))

(***************************************************************************)
(* update_streak: SELECT last_login, streak; INSERT OR REPLACE.            *)
(***************************************************************************)
\* WHERE user_id=? (app8, app10) / WHERE id=1 (the other variants)
StatsOf(v, uid, stats) ==
    IF Scoped(v) THEN {r \in stats : r.user_id = uid}
    ELSE {r \in stats : r.id = 1}

\* a write that counts in SQL: streak = streak + 1 on the stored row, in
\* place of the value the caller computed
ReplaceStatsCounts(v, uid, stats, day, n) ==
    IF StatsOf(v, uid, stats) = {}
    THEN stats \cup {IF Scoped(v)
                     THEN [id |-> NewId(stats), user_id |-> uid,
                           last_login |-> DateStr(day), streak |-> n]
                     ELSE [id |-> 1, last_login |-> DateStr(day), streak |-> n]}
    ELSE (stats \ StatsOf(v, uid, stats))
            \cup {[r EXCEPT !.last_login = DateStr(day), !.streak = r.streak + 1]
                     : r \in StatsOf(v, uid, stats)}

\* INSERT OR REPLACE: the row in conflict is deleted and the new row
\* inserted; with the conflict on user_id the new row takes a fresh id
ReplaceStats(v, uid, stats, day, n) ==
    IF Scoped(v)
    THEN (stats \ StatsOf(v, uid, stats))
            \cup {[id |-> NewId(stats), user_id |-> uid,
                   last_login |-> DateStr(day), streak |-> n]}
    ELSE (stats \ StatsOf(v, uid, stats))
            \cup {[id |-> 1, last_login |-> DateStr(day), streak |-> n]}

\* a streak that is never reset: the elif branch missing
NextStreakNoReset(streak, gap) ==
    IF gap = 1 THEN streak + 1 ELSE streak

\* a streak that is carried over without the increment
NextStreakKept(streak, gap) ==
    IF gap = 1 THEN streak ELSE 1

\* the streak the days since last_login give: + 1 after one day, 1 after more
NextStreak(streak, gap) ==
    IF gap = 1 THEN streak + 1 ELSE 1

\* an update_streak that counts every call: the same-day branch missing,
\* the increment taken for a gap of at most one day
UpdateStreakCountsCalls(v, uid, stats, day) ==
    LET found == StatsOf(v, uid, stats)
    IN  IF found # {}
        THEN LET r == CHOOSE x \in found : TRUE
                 gap == day - ParseDate(r.last_login)
                 n == IF gap <= 1 THEN r.streak + 1 ELSE 1
             IN  [stats |-> ReplaceStats(v, uid, stats, day, n), ret |-> n]
        ELSE [stats |-> ReplaceStats(v, uid, stats, day, 1), ret |-> 1]

\* update_streak: the table afterwards and the value returned
UpdateStreak(v, uid, stats, day) ==
    LET found == StatsOf(v, uid, stats)
    IN  IF found # {}
        THEN LET r == CHOOSE x \in found : TRUE
                 gap == day - ParseDate(r.last_login)
             IN  IF gap >= 1
                 THEN [stats |-> ReplaceStats(v, uid, stats, day,
                                              NextStreak(r.streak, gap)),
                       ret |-> NextStreak(r.streak, gap)]
                 ELSE [stats |-> stats, ret |-> r.streak]
        ELSE [stats |-> ReplaceStats(v, uid, stats, day, 1), ret |-> 1]

(***************************************************************************)
(* get_achievement: the title of a streak.                                 *)
(***************************************************************************)
\* a list of thresholds written in ascending order
AchievementsAscending ==
    << << 0, "Beginner" >>, << 5, "Eco Novice" >>, << 10, "Green Enthusiast" >>,
       << 20, "Sustainability Star" >>, << 30, "Eco Warrior" >> >>

\* achievements = [(30, "Eco Warrior"), ..., (0, "Beginner")]
Achievements ==
    << << 30, "Eco Warrior" >>, << 20, "Sustainability Star" >>,
       << 10, "Green Enthusiast" >>, << 5, "Eco Novice" >>, << 0, "Beginner" >> >>

\* for days, title in achievements: if streak >= days: return title
\* (a function that falls off its end returns None)
RECURSIVE FirstTitle(_, _)
FirstTitle(table, streak) ==
    IF table = << >> THEN "None"
    ELSE IF streak >= Head(table)[1] THEN Head(table)[2]
    ELSE FirstTitle(Tail(table), streak)

\* an if/elif chain that compares with > in place of >=
GetAchievementStrict(v, streak) ==
    IF v \in {"app8", "app10"}
    THEN IF streak > 30 THEN "Eco Warrior"
         ELSE IF streak > 20 THEN "Sustainability Star"
         ELSE IF streak > 10 THEN "Green Enthusiast"
         ELSE IF streak > 5 THEN "Eco Novice"
         ELSE "Beginner"
    ELSE IF v = "database" /\ FirstTitle(Achievements, streak) = "None"
    THEN "Beginner"
    ELSE FirstTitle(Achievements, streak)

\* get_achievement(streak): the if/elif chain of app8 and app10, the loop
\* over the list in the other variants, with a final return "Beginner" in
\* backup/database.py
GetAchievement(v, streak) ==
    IF v \in {"app8", "app10"}
    THEN IF streak >= 30 THEN "Eco Warrior"
         ELSE IF streak >= 20 THEN "Sustainability Star"
         ELSE IF streak >= 10 THEN "Green Enthusiast"
         ELSE IF streak >= 5 THEN "Eco Novice"
         ELSE "Beginner"
    ELSE IF v = "database" /\ FirstTitle(Achievements, streak) = "None"
    THEN "Beginner"
    ELSE FirstTitle(Achievements, streak)

(***************************************************************************)
(* The page functions.  Each takes the table and the event of the run      *)
(* (the button clicked, with the values of the input widgets) and gives    *)
(* the table after the run.                                                *)
(***************************************************************************)
\* a run no button click started; ai is what generate_ai_response returns in it
NoEvent(ai) == [kind |-> "none", ai |-> ai]

\* food_waste_notification: if st.button("Log Waste"): INSERT INTO food_waste
WasteRow(v, uid, rows, ev, day) ==
    IF v = "app17"
    THEN [id |-> NewId(rows), item |-> ev.item, quantity |-> ev.quantity,
          date |-> IsoStr(day, Noon), image |-> "NULL"]
    ELSE Owned(v, uid, [id |-> NewId(rows), item |-> ev.item,
                        quantity |-> ev.quantity, date |-> IsoStr(day, Noon)])

FoodWastePage(v, uid, rows, ev, day) ==
    IF ev.kind = "Log Waste"
    THEN rows \cup {WasteRow(v, uid, rows, ev, day)}
    ELSE rows

\* healthy_eating_tracker: if st.button("Log Meal"): INSERT INTO meals
MealRow(v, uid, rows, ev, day) ==
    IF v = "app17"
    THEN [id |-> NewId(rows), meal |-> ev.meal, nutrition |-> ev.ai,
          date |-> IsoStr(day, Noon), image |-> "NULL", quantity |-> "NULL"]
    ELSE Owned(v, uid, [id |-> NewId(rows), meal |-> ev.meal,
                        nutrition |-> ev.ai, date |-> IsoStr(day, Noon)])

HealthyEatingPage(v, uid, rows, ev, day) ==
    IF ev.kind = "Log Meal"
    THEN rows \cup {MealRow(v, uid, rows, ev, day)}
    ELSE rows

\* an UPDATE that inverts the flag of the goal and clears the others
CompleteGoalToggles(rows, id) ==
    {IF r.id = id THEN [r EXCEPT !.completed = ~r.completed]
                  ELSE [r EXCEPT !.completed = FALSE] : r \in rows}

\* UPDATE goals SET completed = ? WHERE id = ?
CompleteGoal(rows, id) ==
    {IF r.id = id THEN [r EXCEPT !.completed = TRUE] ELSE r : r \in rows}

\* goal_setting: "Set Goal" inserts; "Mark as Completed" of a goal updates
GoalsPage(v, uid, rows, ev, day) ==
    IF ev.kind = "Set Goal"
    THEN rows \cup {Owned(v, uid,
                          [id |-> NewId(rows), type |-> ev.type, goal |-> ev.goal,
                           recommendations |-> ev.ai, date |-> IsoStr(day, Noon),
                           completed |-> FALSE])}
    ELSE IF ev.kind = "Mark Goal" THEN CompleteGoal(rows, ev.id)
    ELSE rows

\* the goals whose "Mark as Completed" button a Goals page shows
OpenGoals(v, uid, rows) ==
    {r.id : r \in {g \in Mine(v, uid, rows) : ~g.completed}}

\* an UPDATE of likes without its WHERE id = ?
LikePostAll(rows, id) ==
    {[r EXCEPT !.likes = r.likes + 1] : r \in rows}

\* a like that deletes the post it is given
LikePostDeletes(rows, id) ==
    {r \in rows : r.id # id}

\* UPDATE community_posts SET likes = likes + 1 WHERE id = ?
LikePost(rows, id) ==
    {IF r.id = id THEN [r EXCEPT !.likes = r.likes + 1] ELSE r : r \in rows}

\* community_section: "Submit Post" inserts with likes 0; a like updates
CommunityPage(v, uid, rows, ev, day) ==
    IF ev.kind = "Submit Post"
    THEN rows \cup {Owned(v, uid, [id |-> NewId(rows), post |-> ev.post,
                                   likes |-> 0, date |-> IsoStr(day, Noon)])}
    ELSE IF ev.kind = "Like" THEN LikePost(rows, ev.id)
    ELSE rows

\* ORDER BY end_date DESC LIMIT 1: a row no other row is sorted before
Latest(rows) ==
    {r \in rows : \A o \in rows : StrGeq(r.end_date, o.end_date)}

\* if not current_challenge or strptime(end_date).date() < now().date()
NeedsChallenge(v, uid, rows, day) ==
    \/ Mine(v, uid, rows) = {}
    \/ \E cur \in Latest(Mine(v, uid, rows)) : ParseDate(cur.end_date) < day

\* the challenge the page goes on with: the stored one, or the tuple of the
\* challenge just inserted, whose id is None
CurrentChallenge(v, uid, rows, ev, day, cur) ==
    IF Mine(v, uid, rows) = {} \/ ParseDate(cur.end_date) < day
    THEN Owned(v, uid, [id |-> NoneId, challenge |-> ev.ai,
                        start_date |-> DateStr(day),
                        end_date |-> DateStr(day + ChallengeDays),
                        completed |-> FALSE])
    ELSE cur

\* UPDATE challenges SET completed = ? WHERE id = ?  (id = NULL is no row)
CompleteChallenge(rows, id) ==
    {IF id # NoneId /\ r.id = id THEN [r EXCEPT !.completed = TRUE] ELSE r
        : r \in rows}

\* sustainability_tips / display_weekly_challenge
ChallengePage(v, uid, rows, ev, day, cur) ==
    LET mine == Mine(v, uid, rows)
        make == mine = {} \/ ParseDate(cur.end_date) < day
        made == IF make
                THEN rows \cup {Owned(v, uid,
                        [id |-> NewId(rows), challenge |-> ev.ai,
                         start_date |-> DateStr(day),
                         end_date |-> DateStr(day + ChallengeDays),
                         completed |-> FALSE])}
                ELSE rows
        current == CurrentChallenge(v, uid, rows, ev, day, cur)
    IN  IF ev.kind = "Mark Challenge" /\ ~current.completed
        THEN CompleteChallenge(made, current.id)
        ELSE made

\* a Home page whose goals query lacks WHERE completed=1
HomeCountsAllGoals(v, uid, fw, ml, gl) ==
    << Cardinality(Mine(v, uid, fw)), Cardinality(Mine(v, uid, ml)),
       Cardinality(Mine(v, uid, gl)) >>

\* the Home page: SELECT COUNT(*) of food_waste, of meals, and of the goals
\* WHERE completed=1
HomeCounts(v, uid, fw, ml, gl) ==
    << Cardinality(Mine(v, uid, fw)), Cardinality(Mine(v, uid, ml)),
       Cardinality({g \in Mine(v, uid, gl) : g.completed}) >>

\* st.success of the button a run handled
MessageOf(ev) ==
    IF ev.kind = "Log Waste" THEN "Logged"
    ELSE IF ev.kind = "Log Meal" THEN "Meal logged successfully!"
    ELSE IF ev.kind = "Set Goal" THEN "Goal set successfully!"
    ELSE IF ev.kind = "Mark Goal" THEN "Goal marked as completed!"
    ELSE IF ev.kind = "Submit Post" THEN "Post shared with the community!"
    ELSE IF ev.kind = "Mark Challenge"
         THEN "Congratulations on completing the challenge!"
    ELSE ""

(***************************************************************************)
(* One script run.                                                         *)
(***************************************************************************)
NoRow == [id |-> NoneId]

\* the replies that can reach the database in a run of `page` no button started
AiFor(page) ==
    IF page = "Sustainability" THEN AiReplies ELSE {"reply"}

\* the rows fetchone() may return where ORDER BY end_date DESC is left out
CurChoicesUnordered(v, uid, rows) ==
    IF Mine(v, uid, rows) = {} THEN {NoRow} ELSE Mine(v, uid, rows)

\* the rows fetchone() may return for ORDER BY end_date DESC LIMIT 1
CurChoices(v, uid, rows) ==
    IF Mine(v, uid, rows) = {} THEN {NoRow} ELSE Latest(Mine(v, uid, rows))

Blank ==
    [page |-> "none", click |-> "none", msg |-> "", input |-> << >>,
     home |-> << >>, open |-> FALSE]

\* login_page() / login() rendered, after the click `click` with `input`
LoginShown(click, input, msg) ==
    [Blank EXCEPT !.page = "login", !.click = click, !.input = input, !.msg = msg]

\* the run stopped with an exception shown in place of the page
ErrorShown(click, input) ==
    [Blank EXCEPT !.page = "error", !.click = click, !.input = input]

\* main() with the gate open, as session s: update_streak, then the page
MainTables(s, page, ev, cur) ==
    LET uid == Uid(variant, s)
    IN  /\ (page = "Sustainability" /\ NeedsChallenge(variant, uid, challenges, today))
               => TotalRows < MaxRows
        /\ user_stats' = UpdateStreak(variant, uid, user_stats, today).stats
        /\ choice' = page
        /\ food_waste' = IF page = "Food Waste"
                         THEN FoodWastePage(variant, uid, food_waste, ev, today)
                         ELSE food_waste
        /\ meals' = IF page = "Healthy Eating"
                    THEN HealthyEatingPage(variant, uid, meals, ev, today)
                    ELSE meals
        /\ goals' = IF page = "Goals"
                    THEN GoalsPage(variant, uid, goals, ev, today)
                    ELSE goals
        /\ community_posts' = IF page = "Community"
                              THEN CommunityPage(variant, uid, community_posts, ev, today)
                              ELSE community_posts
        /\ challenges' = IF page = "Sustainability"
                         THEN ChallengePage(variant, uid, challenges, ev, today, cur)
                         ELSE challenges

\* what that run renders
MainShown(s, page, ev, cur) ==
    LET uid == Uid(variant, s)
        current == CurrentChallenge(variant, uid, challenges, ev, today, cur)
    IN  [page |-> page,
         click |-> ev.kind,
         msg |-> IF page = "Sustainability" /\ current.completed
                 THEN "Challenge completed! Great job!"
                 ELSE MessageOf(ev),
         input |-> << >>,
         home |-> IF page = "Home"
                  THEN HomeCounts(variant, uid, food_waste, meals, goals)
                  ELSE << >>,
         open |-> page = "Sustainability" /\ ~current.completed]

MainRun(s, page, ev) ==
    \E cur \in CurChoices(variant, Uid(variant, s), challenges) :
        /\ MainTables(s, page, ev, cur)
        /\ shown' = MainShown(s, page, ev, cur)

tables == << food_waste, meals, goals, challenges, community_posts, user_stats
>>

\* the sidebar and a page were rendered by the last run and the gate is open
PageUp(page) ==
    /\ GateOpen(variant, session)
    /\ shown.page = page
    /\ choice = page

(***************************************************************************)
(* The schema of ecoeats.db: CREATE TABLE IF NOT EXISTS and the ALTER      *)
(* TABLE ... ADD COLUMN migrations of setup_database.                      *)
(***************************************************************************)
\* the variants that create the tables of ecoeats.db
SetupVariants == {"app8", "app10", "app11", "app17", "app21", "ecoeats", "database"}

\* the tables whose columns differ between the variants
TableNames == {"food_waste", "meals"}

\* the columns of CREATE TABLE IF NOT EXISTS in variant v
Created(v, t) ==
    IF t = "food_waste"
    THEN CASE v \in {"app8", "app10"} -> {"id", "user_id", "item", "quantity", "date"}
           [] v \in {"app11", "app17"} -> {"id", "item", "quantity", "date"}
           [] v = "app21" -> {"id", "item", "quantity", "date", "image"}
           [] OTHER -> {"id", "item", "quantity", "quantity_type", "date", "image"}
    ELSE CASE v \in {"app8", "app10"} -> {"id", "user_id", "meal", "nutrition", "date"}
           [] v \in {"app11", "app17"} -> {"id", "meal", "nutrition", "date"}
           [] OTHER -> {"id", "meal", "nutrition", "date", "image", "quantity"}

\* the columns setup_database of v adds when PRAGMA table_info lacks them
Added(v, t) ==
    CASE v = "app17" /\ t = "food_waste" -> {"image"}
      [] v = "app17" /\ t = "meals" -> {"image", "quantity"}
      [] v = "app21" /\ t = "food_waste" -> {"quantity_type"}
      [] OTHER -> {}

\* a database file without tables
NoTables == [t \in TableNames |-> {}]

\* setup_database of v on a file whose tables have the columns cols
SetupColumns(v, cols) ==
    [t \in TableNames |->
        (IF cols[t] = {} THEN Created(v, t) ELSE cols[t]) \cup Added(v, t)]

\* ALTER TABLE ADD COLUMN: the stored rows read NULL in the new columns
Widen(rows, cols) ==
    {r @@ [c \in cols \ DOMAIN r |-> "NULL"] : r \in rows}

\* the schema of a fresh file after the setup of v
Schema(v) == SetupColumns(v, NoTables)

\* the columns INSERT INTO t (...) names in variant v
InsertColumns(v, t) ==
    IF t = "food_waste"
    THEN CASE v \in {"app8", "app10"} -> {"user_id", "item", "quantity", "date"}
           [] v = "app11" -> {"item", "quantity", "date"}
           [] v = "app17" -> {"item", "quantity", "date", "image"}
           [] OTHER -> {"item", "quantity", "quantity_type", "date", "image"}
    ELSE CASE v \in {"app8", "app10"} -> {"user_id", "meal", "nutrition", "date"}
           [] v = "app11" -> {"meal", "nutrition", "date"}
           [] OTHER -> {"meal", "nutrition", "date", "image"}

\* no function has been called on its own
NoResult == [op |-> "none"]

\* st.cache_data without entries
NoCache == [k \in {} |-> NoResult]

(***************************************************************************)
(* The events of a session, each with the script run it starts.            *)
(***************************************************************************)
\* a run no button started: the page is loaded, or an input widget changed
Refresh ==
    LET s == Prelude(variant, session)
    IN  /\ session' = s
        /\ variant' = variant
        /\ UNCHANGED aux
        /\ today' = today
        /\ IF GateOpen(variant, s)
           THEN \E ai \in AiFor(choice) : MainRun(s, choice, NoEvent(ai))
           ELSE /\ shown' = LoginShown("none", << >>, "")
                /\ choice' = "Home"
                /\ UNCHANGED tables

\* st.session_state after a Login click
LoginSession(v, s, u, p) ==
    IF ~CheckLogin(v, u, p) THEN s
    ELSE IF Gate(v) = "user_id"
         THEN Put(Put(s, "user_id", DemoUserId), "username", u)
         ELSE Put(s, "logged_in", TRUE)

\* login_page() / login(): if st.button("Login")
LoginClick(u, p) ==
    /\ shown.page = "login"
    /\ ~GateOpen(variant, session)
    /\ session' = LoginSession(variant, session, u, p)
    /\ variant' = variant
    /\ UNCHANGED aux
    /\ today' = today
    /\ IF CheckLogin(variant, u, p) /\ Gate(variant) = "user_id"
       THEN \* st.rerun() / st.experimental_rerun(): the script runs again at
            \* once, or the call fails where the installed Streamlit lacks it
            \E rerun \in BOOLEAN, ai \in AiFor("Home") :
                IF rerun \/ variant = "app10"
                THEN \E cur \in CurChoices(variant, DemoUserId, challenges) :
                        /\ MainTables(session', "Home", NoEvent(ai), cur)
                        /\ shown' = [MainShown(session', "Home", NoEvent(ai), cur)
                                        EXCEPT !.click = "Login", !.input = <<
                                        u, p >>]
                ELSE /\ shown' = ErrorShown("Login", << u, p >>)
                     /\ UNCHANGED << choice, tables >>
       ELSE /\ shown' = LoginShown("Login", << u, p >>,
                                   IF CheckLogin(variant, u, p)
                                   THEN "Logged in successfully!"
                                   ELSE "Invalid username or password")
            /\ UNCHANGED << choice, tables >>

\* a logout that deletes user_id and leaves username in the session
LogoutKeepsName ==
    /\ Gate(variant) = "user_id"
    /\ GateOpen(variant, session)
    /\ shown.page \in Menu
    /\ user_stats' = UpdateStreak(variant, Uid(variant, session), user_stats, today).stats
    /\ session' = Del(session, "user_id")
    /\ shown' = LoginShown("Logout", << >>, "")
    /\ choice' = "Home"
    /\ UNCHANGED << aux, variant, today, food_waste, meals, goals, challenges,
                    community_posts >>

\* main(): if st.sidebar.button("Logout"), reached after update_streak
Logout ==
    /\ Gate(variant) = "user_id"
    /\ GateOpen(variant, session)
    /\ shown.page \in Menu
    /\ user_stats' = UpdateStreak(variant, Uid(variant, session), user_stats, today).stats
    /\ session' = Del(Del(session, "user_id"), "username")
    /\ \E rerun \in BOOLEAN :
          IF rerun
          THEN shown' = LoginShown("Logout", << >>, "") /\ choice' = "Home"
          ELSE shown' = ErrorShown("Logout", << >>) /\ choice' = choice
    /\ UNCHANGED << aux, variant, today, food_waste, meals, goals, challenges,
                    community_posts >>

\* the selectbox "Go to" is set to another page
SelectPage(page) ==
    /\ GateOpen(variant, session)
    /\ shown.page \in Menu
    /\ page # choice
    /\ \E ai \in AiFor(page) : MainRun(session, page, NoEvent(ai))
    /\ UNCHANGED << aux, variant, session, today >>

LogWaste(item, quantity) ==
    /\ PageUp("Food Waste")
    /\ TotalRows < MaxRows
    /\ MainRun(session, choice,
               [kind |-> "Log Waste", item |-> item, quantity |-> quantity,
                ai |-> "reply"])
    /\ UNCHANGED << aux, variant, session, today >>

LogMeal(meal, ai) ==
    /\ PageUp("Healthy Eating")
    /\ TotalRows < MaxRows
    /\ MainRun(session, choice, [kind |-> "Log Meal", meal |-> meal, ai |-> ai])
    /\ UNCHANGED << aux, variant, session, today >>

SetGoal(type, goal, ai) ==
    /\ PageUp("Goals")
    /\ TotalRows < MaxRows
    /\ MainRun(session, choice,
               [kind |-> "Set Goal", type |-> type, goal |-> goal, ai |-> ai])
    /\ UNCHANGED << aux, variant, session, today >>

MarkGoal(id) ==
    /\ PageUp("Goals")
    /\ id \in OpenGoals(variant, Uid(variant, session), goals)
    /\ MainRun(session, choice, [kind |-> "Mark Goal", id |-> id, ai |-> "reply"])
    /\ UNCHANGED << aux, variant, session, today >>

SubmitPost(post) ==
    /\ PageUp("Community")
    /\ TotalRows < MaxRows
    /\ MainRun(session, choice, [kind |-> "Submit Post", post |-> post, ai |-> "reply"])
    /\ UNCHANGED << aux, variant, session, today >>

Like(id) ==
    /\ PageUp("Community")
    /\ \E r \in community_posts : r.id = id /\ r.likes < MaxLikes
    /\ MainRun(session, choice, [kind |-> "Like", id |-> id, ai |-> "reply"])
    /\ UNCHANGED << aux, variant, session, today >>

MarkChallenge ==
    /\ PageUp("Sustainability")
    /\ shown.open
    /\ \E ai \in AiReplies :
          MainRun(session, choice, [kind |-> "Mark Challenge", ai |-> ai])
    /\ UNCHANGED << aux, variant, session, today >>

\* midnight passes
Tick ==
    /\ today < MaxDay
    /\ today' = today + 1
    /\ UNCHANGED << aux, variant, session, choice, tables, shown >>

Init ==
    /\ variant \in Variants
    /\ session = EmptySession
    /\ choice = "Home"
    /\ today = 0
    /\ food_waste = {}
    /\ meals = {}
    /\ goals = {}
    /\ challenges = {}
    /\ community_posts = {}
    /\ user_stats = {}
    /\ shown = Blank
    /\ users = {}
    /\ columns = Schema(variant)
    /\ result = NoResult
    /\ cache = NoCache

Next ==
    \/ Refresh
    \/ \E u \in Usernames, p \in Passwords : LoginClick(u, p)
    \/ Logout
    \/ \E page \in Menu : SelectPage(page)
    \/ \E item \in Items, quantity \in Quantities : LogWaste(item, quantity)
    \/ \E meal \in MealTexts, ai \in AiReplies : LogMeal(meal, ai)
    \/ \E type \in GoalTypes, goal \in GoalTexts, ai \in AiReplies : SetGoal(type, goal, ai)
    \/ \E id \in RowIds : MarkGoal(id)
    \/ \E post \in PostTexts : SubmitPost(post)
    \/ \E id \in RowIds : Like(id)
    \/ MarkChallenge
    \/ Tick

Spec == Init /\ [][Next]_vars

(***************************************************************************)
(* Claims on the page specification Spec.                                  *)
(***************************************************************************)
\* C1: a Login click logs the session in (user_id and username, or
\* logged_in = True) exactly when the submitted pair is the hardcoded pair of
\* the variant; any other pair leaves the session state as it was, logged
\* out; and the gate opens in no other way.
C1_LoginIffCredentials ==
    [][ /\ shown'.click = "Login" =>
              IF shown'.input = Credentials(variant)
              THEN IF Gate(variant) = "user_id"
                   THEN /\ DOMAIN session' = {"user_id", "username"}
                        /\ session'["user_id"] = DemoUserId
                        /\ session'["username"] = shown'.input[1]
                   ELSE session'["logged_in"] = TRUE
              ELSE session' = session /\ ~GateOpen(variant, session')
        /\ (~GateOpen(variant, session) /\ GateOpen(variant, session')
               /\ Gate(variant) # "none")
              => shown'.click = "Login" /\ shown'.input = Credentials(variant)
      ]_vars

\* a session of app8 logged in by the pair of app8
C1_Witness ==
    /\ variant = "app8"
    /\ shown.click = "Login"
    /\ shown.input = << "smorande", "krystal3Z" >>
    /\ "user_id" \in DOMAIN session

\* C2: in app8 and app10 a run changes the database only with user_id in the
\* session state; a Logout click removes user_id and username; and while the
\* session stays logged out, a run shows the login page and writes nothing.
C2_PagesBehindLogin ==
    [][ Gate(variant) = "user_id" =>
          /\ tables' # tables
                => "user_id" \in (DOMAIN session \cup DOMAIN session')
          /\ (today' = today /\ shown'.click = "Logout")
                => DOMAIN session' \cap {"user_id", "username"} = {}
          /\ ("user_id" \notin DOMAIN session /\ "user_id" \notin DOMAIN session')
                => /\ tables' = tables
                   /\ today' = today => shown'.page = "login"
      ]_vars

\* logged out by a Logout click, with rows in the database
C2_Witness ==
    /\ Gate(variant) = "user_id"
    /\ shown.click = "Logout"
    /\ "user_id" \notin DOMAIN session
    /\ user_stats # {}
    /\ TotalRows > 0

ItemsLogged == Cardinality(food_waste)
MealsTracked == Cardinality(meals)
GoalsCompleted == Cardinality({g \in goals : g.completed})

\* C3: the Home page shows the number of food_waste rows, of meals rows and
\* of completed goals; a Log Waste, Log Meal or goal Mark-as-Completed click
\* raises its count by exactly 1 and no other count; any other run, and the
\* passing of a day, changes no count.
C3_HomeCounts ==
    [][ /\ (today' = today /\ shown'.page = "Home")
              => shown'.home = << ItemsLogged', MealsTracked', GoalsCompleted' >>
        /\ ItemsLogged' =
              IF today' = today /\ shown'.click = "Log Waste"
              THEN ItemsLogged + 1 ELSE ItemsLogged
        /\ MealsTracked' =
              IF today' = today /\ shown'.click = "Log Meal"
              THEN MealsTracked + 1 ELSE MealsTracked
        /\ GoalsCompleted' =
              IF today' = today /\ shown'.click = "Mark Goal"
              THEN GoalsCompleted + 1 ELSE GoalsCompleted
      ]_vars

\* a Home page that counts one completed goal
C3_Witness ==
    /\ shown.page = "Home"
    /\ shown.home = << 0, 0, 1 >>
    /\ \E g \in goals : g.completed

\* the row of `after` that has the id of r
SameId(r, after) == {x \in after : x.id = r.id}

\* C6 as stated: every stored row is still there after a step, unchanged or
\* with nothing but a boolean flag set.
C6_OnlyBooleanUpdates ==
    [][ /\ food_waste \subseteq food_waste'
        /\ meals \subseteq meals'
        /\ \A r \in goals :
              SameId(r, goals') \subseteq {r, [r EXCEPT !.completed = TRUE]}
                 /\ SameId(r, goals') # {}
        /\ \A r \in challenges :
              SameId(r, challenges') \subseteq {r, [r EXCEPT !.completed = TRUE]}
                 /\ SameId(r, challenges') # {}
        /\ community_posts \subseteq community_posts'
        /\ user_stats \subseteq user_stats'
      ]_vars

\* C6, amended: food_waste and meals rows are only inserted; a goal or a
\* challenge changes only by having completed set; a post changes only by
\* having its likes raised by 1; user_stats keeps at most one row per user,
\* which update_streak replaces.  No row of the first five tables is deleted.
C6_InsertFlagLikeStreak ==
    [][ /\ food_waste \subseteq food_waste'
        /\ meals \subseteq meals'
        /\ \A r \in goals :
              SameId(r, goals') \subseteq {r, [r EXCEPT !.completed = TRUE]}
                 /\ SameId(r, goals') # {}
        /\ \A r \in challenges :
              SameId(r, challenges') \subseteq {r, [r EXCEPT !.completed = TRUE]}
                 /\ SameId(r, challenges') # {}
        /\ \A r \in community_posts :
              SameId(r, community_posts') \subseteq {r, [r EXCEPT !.likes = r.likes + 1]}
                 /\ SameId(r, community_posts') # {}
        /\ Cardinality(user_stats') <= 1
        /\ Cardinality(user_stats') >= Cardinality(user_stats)
      ]_vars

\* a liked post beside a streak row that was replaced
C6_Witness ==
    /\ \E r \in community_posts : r.likes = 2
    /\ \E r \in user_stats : r.streak = 2

(***************************************************************************)
(* update_streak called on its own, day after day (SpecStreak).            *)
(***************************************************************************)
\* the variants whose update_streak is followed here
StreakVariants == {"ecoeats", "database", "app10"}

\* streak = update_streak() / update_streak(st.session_state.user_id)
StreakCall ==
    LET u == UpdateStreak(variant, DemoUserId, user_stats, today)
    IN  /\ user_stats' = u.stats
        /\ result' = [op |-> "update_streak", ret |-> u.ret]
        /\ UNCHANGED << today,
                    variant, session, choice, food_waste, meals, goals,
                    challenges, community_posts, shown, users, columns, cache >>

\* a run of the Sustainability Tips page of ecoeats.py: main() calls
\* update_streak and get_achievement, then sustainability_tips() calls
\* update_streak again
TipsRun ==
    LET u == UpdateStreak(variant, DemoUserId, user_stats, today)
        w == UpdateStreak(variant, DemoUserId, u.stats, today)
    IN  /\ variant = "ecoeats"
        /\ user_stats' = w.stats
        /\ result' = [op |-> "sustainability_tips", ret |-> u.ret,
                      achievement |-> GetAchievement(variant, u.ret),
                      again |-> w.ret]
        /\ UNCHANGED << today,
                    variant, session, choice, food_waste, meals, goals,
                    challenges, community_posts, shown, users, columns, cache >>

\* midnight passes
StreakTick ==
    /\ today < StreakDays
    /\ today' = today + 1
    /\ UNCHANGED << user_stats, result,
                    variant, session, choice, food_waste, meals, goals,
                    challenges, community_posts, shown, users, columns, cache >>

InitStreak ==
    /\ variant \in StreakVariants
    /\ session = EmptySession
    /\ choice = "Home"
    /\ today = 0
    /\ food_waste = {}
    /\ meals = {}
    /\ goals = {}
    /\ challenges = {}
    /\ community_posts = {}
    /\ user_stats = {}
    /\ shown = Blank
    /\ users = {}
    /\ columns = Schema(variant)
    /\ result = NoResult
    /\ cache = NoCache

SpecStreak ==
    /\ InitStreak
    /\ [][
             \/ StreakCall
             \/ TipsRun
             \/ StreakTick
         ]_vars

\* the user_stats row update_streak reads
StreakRow(stats) == StatsOf(variant, DemoUserId, stats)

\* C10: when the stored last_login is exactly one day before today, a call
\* of update_streak stores streak + 1 with last_login = today, in the one
\* row of the user, and returns streak + 1.
C10_StreakPlusOne ==
    [][ (today' = today /\ \E r \in StreakRow(user_stats) :
                               ParseDate(r.last_login) = today - 1)
          => \E r \in StreakRow(user_stats) :
                /\ result'.ret = r.streak + 1
                /\ \A x \in StreakRow(user_stats') :
                      x.streak = r.streak + 1 /\ x.last_login = DateStr(today)
                /\ Cardinality(StreakRow(user_stats')) = 1
      ]_vars

\* a streak of 3 reached on 2024-03-01, over the leap day
C10_Witness ==
    /\ today = 2
    /\ result = [op |-> "update_streak", ret |-> 3]
    /\ \E r \in user_stats : r.streak = 3 /\ r.last_login = DateStr(2)

(***************************************************************************)
(* The scripts of the variants started one after another on the same      *)
(* ecoeats.db (SpecSchema): each start runs setup_database, a Log Waste    *)
(* or Log Meal click of the running script then inserts a row.             *)
(***************************************************************************)
\* the variants with a Log Waste and a Log Meal button
InsertVariants == SetupVariants \ {"database"}

\* the rows of table t
RowsOf(t, fw, ml) == IF t = "food_waste" THEN fw ELSE ml

\* the row INSERT INTO t (...) of variant v stores: the named columns bound,
\* the other columns NULL
InsertedRow(v, t, rows, cols) ==
    [c \in cols |-> IF c = "id" THEN NewId(rows)
                    ELSE IF c \in InsertColumns(v, t) THEN "bound" ELSE "NULL"]

\* the script of variant v starts: setup_database()
SetupDatabase(v) ==
    /\ variant' = v
    /\ columns' = SetupColumns(v, columns)
    /\ food_waste' = Widen(food_waste, columns'["food_waste"])
    /\ meals' = Widen(meals, columns'["meals"])
    /\ result' = [op |-> "setup_database", error |-> "none"]
    /\ UNCHANGED << session, choice, today, goals, challenges,
                    community_posts, user_stats, shown, users, cache >>

\* c.execute("INSERT INTO t (...) VALUES (...)") in the running script
InsertRow(t) ==
    /\ variant \in InsertVariants
    /\ Cardinality(RowsOf(t, food_waste, meals)) < MaxStored
    /\ IF InsertColumns(variant, t) \subseteq columns[t]
       THEN /\ food_waste' = IF t = "food_waste"
                             THEN food_waste \cup
                                  {InsertedRow(variant, t, food_waste, columns[t])}
                             ELSE food_waste
            /\ meals' = IF t = "meals"
                        THEN meals \cup {InsertedRow(variant, t, meals, columns[t])}
                        ELSE meals
            /\ result' = [op |-> "insert", error |-> "none"]
       ELSE \* sqlite3.OperationalError: table t has no column named ...
            /\ result' = [op |-> "insert", error |-> "OperationalError"]
            /\ UNCHANGED << food_waste, meals >>
    /\ UNCHANGED << variant, columns,
                    session, choice, today, goals, challenges,
                    community_posts, user_stats, shown, users, cache >>

InitSchema ==
    /\ variant \in SetupVariants
    /\ session = EmptySession
    /\ choice = "Home"
    /\ today = 0
    /\ food_waste = {}
    /\ meals = {}
    /\ goals = {}
    /\ challenges = {}
    /\ community_posts = {}
    /\ user_stats = {}
    /\ shown = Blank
    /\ users = {}
    /\ columns = Schema(variant)
    /\ result = [op |-> "setup_database", error |-> "none"]
    /\ cache = NoCache

SpecSchema ==
    /\ InitSchema
    /\ [][
             \/ \E v \in SetupVariants : SetupDatabase(v)
             \/ \E t \in TableNames : InsertRow(t)
         ]_vars

\* every row of `before` is in `after` with the values it had
Kept(before, after) ==
    \A r \in before : \E x \in after : \A c \in DOMAIN r : c \in DOMAIN x /\ x[c] = r[c]

\* C9: after setup_database of app17 or app21 on a file set up by any
\* variants before, the columns named by that variant's INSERT INTO
\* food_waste and INSERT INTO meals exist, a second setup_database would
\* change nothing, and no stored row or column has been removed.
C9_SetupServesInserts ==
    [][ (result'.op = "setup_database" /\ variant' \in {"app17", "app21"})
          => /\ \A t \in TableNames : InsertColumns(variant', t) \subseteq columns'[t]
             /\ SetupColumns(variant', columns') = columns'
             /\ Widen(food_waste', columns'["food_waste"]) = food_waste'
             /\ Widen(meals', columns'["meals"]) = meals'
             /\ \A t \in TableNames : columns[t] \subseteq columns'[t]
             /\ Kept(food_waste, food_waste')
             /\ Kept(meals, meals')
      ]_vars

(***************************************************************************)
(* create_user on the users table of app8 and app10 (SpecUsers).          *)
(***************************************************************************)
\* usernames and passwords handed to create_user; SQLite compares TEXT
\* byte by byte, so "kanwal" and "Kanwal" are two usernames
NewNames == {"kanwal", "Kanwal", "smorande"}
NewPasswords == {"swapnil87", "krystal3Z"}
\* bcrypt.gensalt()
Salts == {1, 2}

\* bcrypt.hashpw(password.encode('utf-8'), bcrypt.gensalt())
HashPassword(p, salt) == << "bcrypt", salt, p >>

\* a users table without its UNIQUE constraint
ConflictsNever(rows, u) == FALSE

\* username TEXT UNIQUE: a stored row has this username
Conflicts(rows, u) == \E r \in rows : r.username = u

\* create_user(username, password)
CreateUser(u, p, salt) ==
    /\ IF Conflicts(users, u)
       THEN \* sqlite3.IntegrityError: UNIQUE constraint failed: users.username
            /\ users' = users
            /\ result' = [op |-> "create_user", username |-> u,
                          error |-> "IntegrityError"]
       ELSE /\ Cardinality(users) < MaxUsers
            /\ users' = users \cup {[id |-> NewId(users), username |-> u,
                                     password |-> HashPassword(p, salt)]}
            /\ result' = [op |-> "create_user", username |-> u, error |-> "none"]
    /\ UNCHANGED << pageVars, columns, cache >>

InitUsers ==
    /\ variant \in {"app8", "app10"}
    /\ session = EmptySession
    /\ choice = "Home"
    /\ today = 0
    /\ food_waste = {}
    /\ meals = {}
    /\ goals = {}
    /\ challenges = {}
    /\ community_posts = {}
    /\ user_stats = {}
    /\ shown = Blank
    /\ users = {}
    /\ columns = Schema(variant)
    /\ result = NoResult
    /\ cache = NoCache

SpecUsers ==
    /\ InitUsers
    /\ [][
             \E u \in NewNames, p \in NewPasswords, salt \in Salts : CreateUser(u, p, salt)
         ]_vars

\* C8: no two rows of users have the same username, and create_user with
\* a username that is already stored fails with an error and leaves the
\* table as it was.
C8_UniqueUsernames ==
    [][ /\ \A r1 \in users', r2 \in users' : r1.username = r2.username => r1 = r2
        /\ (result'.op = "create_user"
               /\ result'.username \in {r.username : r \in users})
              => result'.error = "IntegrityError" /\ users' = users
        /\ (result'.op = "create_user"
               /\ result'.username \notin {r.username : r \in users})
              => result'.error = "none"
      ]_vars

\* a rejected create_user for a stored username, beside "Kanwal"
C8_Witness ==
    /\ result = [op |-> "create_user", username |-> "kanwal",
                 error |-> "IntegrityError"]
    /\ {r.username : r \in users} = {"kanwal", "Kanwal"}

(***************************************************************************)
(* The wrappers of the LLM calls in ecoeats.py (SpecAI): each wraps        *)
(* client.chat.completions.create and the reading of its reply in          *)
(* try / except Exception.                                                 *)
(***************************************************************************)
\* the classes of the errors met in the try block and their base classes
ClassParent ==
    [APITimeoutError |-> "APIConnectionError", APIConnectionError |-> "APIError",
     RateLimitError |-> "APIStatusError", APIStatusError |-> "APIError",
     APIError |-> "OpenAIError", OpenAIError |-> "Exception",
     AttributeError |-> "Exception", Exception |-> "BaseException"]

RECURSIVE IsSubclass(_, _)
IsSubclass(c, base) ==
    \/ c = base
    \/ c \in DOMAIN ClassParent /\ IsSubclass(ClassParent[c], base)

\* a handler that names one branch of the client's errors only
CatchesStatusErrors(c) == IsSubclass(c, "APIStatusError")

\* except Exception as e
Catches(c) == IsSubclass(c, "Exception")

\* what client.chat.completions.create can do: raise, reply with text, or
\* reply with a message whose content is None
ApiErrors == {"APITimeoutError", "APIConnectionError", "RateLimitError"}
Replies == {<< "tip" >>, << " ", "tip", " " >>, << " " >>}
Outcome(kind, text, exc) == [kind |-> kind, text |-> text, exc |-> exc]
ApiOutcomes ==
    {Outcome("content", t, "none") : t \in Replies}
        \cup {Outcome("null", << >>, "none")}
        \cup {Outcome("raise", << >>, e) : e \in ApiErrors}
NotCalled == Outcome("not called", << >>, "none")

\* str.strip() on a text of tokens, " " the whitespace
RECURSIVE LStrip(_)
LStrip(s) == IF s # << >> /\ Head(s) = " " THEN LStrip(Tail(s)) ELSE s
RECURSIVE RStrip(_)
RStrip(s) ==
    IF s # << >> /\ s[Len(s)] = " " THEN RStrip(SubSeq(s, 1, Len(s) - 1)) ELSE s
Strip(s) == RStrip(LStrip(s))

Wrappers == {"generate_ai_response", "analyze_image", "analyze_grocery_list"}

\* st.error(f"Error in ...: {str(e)}")
ErrorPrefix(f) ==
    CASE f = "generate_ai_response" -> "Error in AI response generation: "
      [] f = "analyze_image" -> "Error in image analysis: "
      [] OTHER -> "Error in grocery list analysis: "

\* the string returned from the except branch
FallbackOf(f) ==
    CASE f = "generate_ai_response" -> Fallback
      [] f = "analyze_image" -> "I'm sorry, I couldn't analyze the image at this time."
      [] OTHER -> "I'm sorry, I couldn't analyze the grocery list at this time."

\* the try block: the value of response.choices[0].message.content.strip()
\* or the class of the exception raised
TryBody(o) ==
    CASE o.kind = "raise" -> [raised |-> o.exc, ret |-> << >>]
      [] o.kind = "null" -> [raised |-> "AttributeError", ret |-> << >>]
      [] OTHER -> [raised |-> "none", ret |-> Strip(o.text)]

\* a wrapper whose except clause shows the error and raises it again
GuardedReraises(f, o) ==
    LET t == TryBody(o)
    IN  IF t.raised = "none"
        THEN [op |-> f, api |-> o, ret |-> t.ret, errors |-> << >>, raised |->
        "none"]
        ELSE [op |-> f, api |-> o, ret |-> << >>,
              errors |-> << << ErrorPrefix(f), t.raised >> >>, raised |-> t.raised]

\* one call of wrapper f whose API call does o: the value returned, the
\* st.error messages shown, and the exception that leaves the function
Guarded(f, o) ==
    LET t == TryBody(o)
    IN  IF t.raised = "none"
        THEN [op |-> f, api |-> o, ret |-> t.ret, errors |-> << >>, raised |->
        "none"]
        ELSE IF Catches(t.raised)
        THEN [op |-> f, api |-> o, ret |-> << FallbackOf(f) >>,
              errors |-> << << ErrorPrefix(f), t.raised >> >>, raised |->
              "none"]
        ELSE [op |-> f, api |-> o, ret |-> << >>, errors |-> << >>,
              raised |-> t.raised]

Prompts == {"tips", "nutrition"}

\* a memo that keeps replies only: a call that ended in the fallback is
\* made again the next time
GenerateAiResponseRetries(prompt, o) ==
    /\ IF prompt \in DOMAIN cache
       THEN /\ result' = [cache[prompt] EXCEPT !.api = NotCalled]
                            @@ [prompt |-> prompt]
            /\ cache' = cache
       ELSE LET g == Guarded("generate_ai_response", o)
            IN  /\ result' = g @@ [prompt |-> prompt]
                /\ cache' = IF g.raised = "none" /\ g.errors = << >>
                            THEN cache @@ (prompt :> g)
                            ELSE cache
    /\ UNCHANGED << pageVars, users, columns >>

\* generate_ai_response(prompt) under @st.cache_data: a stored entry is
\* returned and its st.error replayed without calling the API
GenerateAiResponse(prompt, o) ==
    /\ IF prompt \in DOMAIN cache
       THEN /\ result' = [cache[prompt] EXCEPT !.api = NotCalled]
                            @@ [prompt |-> prompt]
            /\ cache' = cache
       ELSE LET g == Guarded("generate_ai_response", o)
            IN  /\ result' = g @@ [prompt |-> prompt]
                /\ cache' = IF g.raised = "none" THEN cache @@ (prompt :> g)
                            ELSE cache
    /\ UNCHANGED << pageVars, users, columns >>

\* analyze_image(image, task)
AnalyzeImage(o) ==
    /\ result' = Guarded("analyze_image", o)
    /\ UNCHANGED << cache,
                    pageVars, users, columns >>

\* analyze_grocery_list(image)
AnalyzeGroceryList(o) ==
    /\ result' = Guarded("analyze_grocery_list", o)
    /\ UNCHANGED << cache,
                    pageVars, users, columns >>

InitAI ==
    /\ variant = "ecoeats"
    /\ session = EmptySession
    /\ choice = "Home"
    /\ today = 0
    /\ food_waste = {}
    /\ meals = {}
    /\ goals = {}
    /\ challenges = {}
    /\ community_posts = {}
    /\ user_stats = {}
    /\ shown = Blank
    /\ users = {}
    /\ columns = Schema(variant)
    /\ result = NoResult
    /\ cache = NoCache

SpecAI ==
    /\ InitAI
    /\ [][
             \/ \E prompt \in Prompts, o \in ApiOutcomes : GenerateAiResponse(prompt, o)
             \/ \E o \in ApiOutcomes : AnalyzeImage(o)
             \/ \E o \in ApiOutcomes : AnalyzeGroceryList(o)
         ]_vars

\* C5: when the API call inside a wrapper raises, the wrapper shows one
\* st.error message naming the error and returns its canned fallback string;
\* and no call of a wrapper ends with an exception leaving the function.
C5_BlanketCatch ==
    /\ (result.op \in Wrappers /\ result.api.kind = "raise")
          => /\ result.ret = << FallbackOf(result.op) >>
             /\ result.errors = << << ErrorPrefix(result.op), result.api.exc >> >>
    /\ result.op \in Wrappers => result.raised = "none"

\* analyze_grocery_list answered a rate-limit error with its fallback
C5_Witness ==
    /\ result.op = "analyze_grocery_list"
    /\ result.api = Outcome("raise", << >>, "RateLimitError")
    /\ result.ret = << "I'm sorry, I couldn't analyze the grocery list at this time." >>
    /\ Len(result.errors) = 1

(***************************************************************************)
(* The weekly report of ecoeats.py (SpecReport): Log Waste on the Food     *)
(* Waste page, then the Weekly Report page with and without a click on     *)
(* "Generate PDF Report", as the days pass.                                *)
(***************************************************************************)
\* values of SQL expressions: NULL or an integer
Null == [null |-> TRUE, val |-> 0]
Val(n) == [null |-> FALSE, val |-> n]

\* SUM(quantity): NULL over no rows
RECURSIVE SqlSum(_)
SqlSum(rows) ==
    IF rows = {} THEN Null
    ELSE LET r == CHOOSE x \in rows : TRUE
             rest == SqlSum(rows \ {r})
         IN  Val(r.quantity + rest.val)

\* AVG(quantity): NULL over no rows, else the quotient SUM / COUNT
SqlAvg(rows) ==
    IF rows = {} THEN Null
    ELSE [null |-> FALSE, val |-> << SqlSum(rows).val, Cardinality(rows) >>]

\* COALESCE(x, 0)
Coalesce(x) == IF x.null THEN Val(0) ELSE x

\* a report that prints SUM(quantity) as it comes
AsFetched(x) == x

\* waste_stats[1] if waste_stats[1] else 0
OrZero(x) == IF x.null \/ x.val = 0 THEN Val(0) ELSE x

\* WHERE date >= date('now', '-7 days'), TEXT compared byte by byte
InWindow(rows, day) ==
    {r \in rows : StrGeq(r.date, DateStr(day - WindowDays))}

\* GROUP BY DATE(date) ORDER BY date: the groups in ascending order
RECURSIVE Ascending(_)
Ascending(dates) ==
    IF dates = {} THEN << >>
    ELSE LET first == CHOOSE d \in dates : \A e \in dates : ~StrLess(e, d)
         IN  << first >> \o Ascending(dates \ {first})

\* display_waste_trend(): SELECT DATE(date), SUM(quantity) ... GROUP BY
WasteTrend(rows, day) ==
    LET w == InWindow(rows, day)
        order == Ascending({SqlDate(r.date) : r \in w})
    IN  [i \in 1 .. Len(order) |->
            [date |-> order[i],
             total |-> SqlSum({r \in w : SqlDate(r.date) = order[i]})]]

\* weekly_report(): the trend and the figures of stats_prompt
WeeklyStats(rows, day) ==
    LET w == InWindow(rows, day)
    IN  [trend |-> WasteTrend(rows, day),
         entries |-> Cardinality(w),
         total |-> OrZero(SqlSum(w))]

\* generate_pdf_report(): COUNT(*), COALESCE(SUM, 0), COALESCE(AVG, 0)
PdfStats(rows, day) ==
    LET w == InWindow(rows, day)
    IN  [entries |-> Cardinality(w),
         total_waste |-> Coalesce(SqlSum(w)),
         avg_waste |-> Coalesce(SqlAvg(w))]

NoPdf == [entries |-> 0, total_waste |-> Null, avg_waste |-> Null]

ReportQuantities == {0, 10}

\* food_waste_notification(): if st.button("Log Waste")
ReportLogWaste(quantity) ==
    /\ Cardinality(food_waste) < ReportRows
    /\ food_waste' = food_waste \cup
          {[id |-> NewId(food_waste), item |-> "apple", quantity |-> quantity,
            quantity_type |-> "Solid (grams)", date |-> IsoStr(today, Noon),
            image |-> "NULL"]}
    /\ result' = [op |-> "log_waste"]
    /\ UNCHANGED << today,
                    variant, session, choice, meals, goals, challenges,
                    community_posts, user_stats, shown, users, columns, cache >>

\* a run of the Weekly Report page
WeeklyReport ==
    /\ result' = [op |-> "weekly_report", stats |-> WeeklyStats(food_waste, today),
                  pdf |-> NoPdf]
    /\ UNCHANGED << today, food_waste,
                    variant, session, choice, meals, goals, challenges,
                    community_posts, user_stats, shown, users, columns, cache >>

\* a run of the Weekly Report page started by "Generate PDF Report"
GeneratePdfReport ==
    /\ result' = [op |-> "generate_pdf_report",
                  stats |-> WeeklyStats(food_waste, today),
                  pdf |-> PdfStats(food_waste, today)]
    /\ UNCHANGED << today, food_waste,
                    variant, session, choice, meals, goals, challenges,
                    community_posts, user_stats, shown, users, columns, cache >>

\* midnight passes
ReportTick ==
    /\ today < ReportDays
    /\ today' = today + 1
    /\ UNCHANGED << food_waste, result,
                    variant, session, choice, meals, goals, challenges,
                    community_posts, user_stats, shown, users, columns, cache >>

InitReport ==
    /\ variant = "ecoeats"
    /\ session = EmptySession
    /\ choice = "Home"
    /\ today = 0
    /\ food_waste = {}
    /\ meals = {}
    /\ goals = {}
    /\ challenges = {}
    /\ community_posts = {}
    /\ user_stats = {}
    /\ shown = Blank
    /\ users = {}
    /\ columns = Schema(variant)
    /\ result = NoResult
    /\ cache = NoCache

SpecReport ==
    /\ InitReport
    /\ [][
             \/ \E quantity \in ReportQuantities : ReportLogWaste(quantity)
             \/ WeeklyReport
             \/ GeneratePdfReport
             \/ ReportTick
         ]_vars

\* the food_waste rows logged on one of the last 7 days or today
LastWeek == {r \in food_waste : ParseDate(SqlDate(r.date)) >= today - WindowDays}

\* the quantities of the rows of S, added up
RECURSIVE Quantity(_)
Quantity(S) ==
    IF S = {} THEN 0
    ELSE LET r == CHOOSE x \in S : TRUE IN r.quantity + Quantity(S \ {r})

\* the totals of the trend's days, added up
RECURSIVE TrendTotal(_)
TrendTotal(trend) ==
    IF trend = << >> THEN 0 ELSE Head(trend).total.val + TrendTotal(Tail(trend))

\* C4: a run of the weekly report shows the number and the summed quantity
\* of the food_waste rows of the last 7 days, 0 when there is none; the PDF
\* carries the same two figures and the average 0 when there is none; and
\* the per-day totals of display_waste_trend add up to the same total, one
\* entry for each day that has rows.
C4_WeeklyFigures ==
    [][ (result'.op \in {"weekly_report", "generate_pdf_report"} /\ today' = today)
          => /\ result'.stats.entries = Cardinality(LastWeek)
             /\ result'.stats.total = Val(Quantity(LastWeek))
             /\ TrendTotal(result'.stats.trend) = Quantity(LastWeek)
             /\ {e.date : e \in {result'.stats.trend[i] :
                                    i \in DOMAIN result'.stats.trend}}
                   = {DateStr(ParseDate(SqlDate(r.date))) : r \in LastWeek}
             /\ result'.op = "generate_pdf_report"
                   => /\ result'.pdf.entries = Cardinality(LastWeek)
                      /\ result'.pdf.total_waste = Val(Quantity(LastWeek))
                      /\ LastWeek = {} => result'.pdf.avg_waste = Val(0)
      ]_vars

\* a report of one entry of 10 while an older row has left the window
C4_Witness ==
    /\ result.op = "generate_pdf_report"
    /\ result.stats.entries = 1
    /\ result.stats.total = Val(10)
    /\ Cardinality(food_waste) = 2
    /\ today = ReportDays

(***************************************************************************)
(* app8 and app10 on a database that holds rows of another user           *)
(* (SpecOwner): the session events of Spec, from a file in which every     *)
(* user-owned table has a row whose user_id is not the session's.          *)
(***************************************************************************)
\* a user_id other than the one login_page stores
OtherUser == DemoUserId + 1

InitOwner ==
    /\ variant \in {"app8", "app10"}
    /\ session = EmptySession
    /\ choice = "Home"
    /\ today = 0
    /\ food_waste = {[id |-> 1, user_id |-> OtherUser, item |-> "bread",
                      quantity |-> 30, date |-> IsoStr(0, Noon)]}
    /\ meals = {[id |-> 1, user_id |-> OtherUser, meal |-> "soup",
                 nutrition |-> "reply", date |-> IsoStr(0, Noon)]}
    /\ goals = {[id |-> 1, user_id |-> OtherUser, type |-> "Healthy Eating",
                 goal |-> "greens", recommendations |-> "reply",
                 date |-> IsoStr(0, Noon), completed |-> TRUE]}
    /\ challenges = {[id |-> 1, user_id |-> OtherUser, challenge |-> "reply",
                      start_date |-> DateStr(0),
                      end_date |-> DateStr(ChallengeDays), completed |-> FALSE]}
    /\ community_posts = {}
    /\ user_stats = {[id |-> 1, user_id |-> OtherUser,
                      last_login |-> DateStr(0), streak |-> 1]}
    /\ shown = Blank
    /\ users = {}
    /\ columns = Schema(variant)
    /\ result = NoResult
    /\ cache = NoCache

SpecOwner == InitOwner /\ [][Next]_vars

\* ORDER BY date DESC LIMIT n, rows of one date in rowid order
RECURSIVE Recent(_, _)
Recent(rows, n) ==
    IF rows = {} \/ n = 0 THEN << >>
    ELSE LET first == CHOOSE r \in rows : \A o \in rows :
                          \/ StrLess(o.date, r.date)
                          \/ o.date = r.date /\ r.id <= o.id
         IN  << first >> \o Recent(rows \ {first}, n - 1)

\* what the pages of a session with user_id uid query for display: the Home
\* counts, the recent waste and meals, the goals list, the current challenge
Display(v, uid, fw, ml, gl, ch) ==
    [home |-> HomeCounts(v, uid, fw, ml, gl),
     waste |-> Recent(Mine(v, uid, fw), RecentLimit),
     meals |-> Recent(Mine(v, uid, ml), RecentLimit),
     goals |-> Recent(Mine(v, uid, gl), Cardinality(gl)),
     challenge |-> CurChoices(v, uid, ch)]

\* the rows of user uid
RowsOfUser(uid, rows) == {r \in rows : r.user_id = uid}

\* the rows a step inserted or changed in the four user-owned tables
Written ==
    (food_waste' \ food_waste) \cup (meals' \ meals) \cup (goals' \ goals)
        \cup (challenges' \ challenges)

\* C7: in app8 and app10 every row a run inserts into (or changes in)
\* food_waste, meals, goals and challenges carries the user_id of the
\* session, and what the pages display is what they would display on the
\* database without the rows of other users; the Home page a run renders
\* counts the rows of the session's user only.
C7_OwnRowsOnly ==
    [][ /\ \A r \in Written :
              \E s \in {session, session'} :
                  "user_id" \in DOMAIN s /\ r.user_id = s["user_id"]
        /\ "user_id" \in DOMAIN session'
              => LET uid == session'["user_id"]
                 IN  /\ Display(variant, uid, food_waste', meals', goals', challenges')
                           = Display(variant, uid, RowsOfUser(uid, food_waste'),
                                     RowsOfUser(uid, meals'), RowsOfUser(uid, goals'),
                                     RowsOfUser(uid, challenges'))
                     /\ (today' = today /\ shown'.page = "Home")
                           => shown'.home =
                                 << Cardinality(RowsOfUser(uid, food_waste')),
                                    Cardinality(RowsOfUser(uid, meals')),
                                    Cardinality({g \in RowsOfUser(uid, goals') :
                                                    g.completed}) >>
      ]_vars

\* Home counts one logged item of the session's user beside the other user's
C7_Witness ==
    /\ shown.page = "Home"
    /\ shown.home = << 1, 0, 0 >>
    /\ \E r \in food_waste : r.user_id = OtherUser
    /\ \E r \in food_waste : r.user_id = DemoUserId /\ r.id = 2

(***************************************************************************)
(* Further claims on update_streak and get_achievement (SpecStreak).       *)
(***************************************************************************)
\* C11: a call of update_streak that finds no row of the user, or a row
\* whose last_login is more than one day before today, stores streak 1 with
\* last_login = today in the one row of the user and returns 1.
C11_StreakStartsAtOne ==
    [][ (today' = today
           /\ \/ StreakRow(user_stats) = {}
              \/ \E r \in StreakRow(user_stats) :
                     ParseDate(r.last_login) < today - 1)
          => /\ result'.ret = 1
             /\ Cardinality(StreakRow(user_stats')) = 1
             /\ \A x \in StreakRow(user_stats') :
                   x.streak = 1 /\ x.last_login = DateStr(today)
      ]_vars

\* app10: the second row written for the user is a streak reset to 1 on
\* 2024-03-02, after a day without login
C11_Witness ==
    /\ variant = "app10"
    /\ today = 3
    /\ result = [op |-> "update_streak", ret |-> 1]
    /\ \E r \in user_stats : r.id = 2 /\ r.streak = 1 /\ r.last_login = DateStr(3)

\* C12: when the stored last_login is today, update_streak returns the
\* stored streak and leaves user_stats as it is; a run that calls it twice
\* gets the same value from both calls and stores what one call stores.
C12_SameDayNoWrite ==
    [][ today' = today
          => /\ \A r \in StreakRow(user_stats) :
                   ParseDate(r.last_login) = today
                      => user_stats' = user_stats /\ result'.ret = r.streak
             /\ result'.op = "sustainability_tips"
                   => /\ result'.again = result'.ret
                      /\ \A x \in StreakRow(user_stats') :
                            x.streak = result'.ret /\ x.last_login = DateStr(today)
                      /\ Cardinality(StreakRow(user_stats')) = 1
                      /\ Cardinality(user_stats') = 1
      ]_vars

\* a run of two calls on the second day of a streak, after a single call
\* on the first
C12_Witness ==
    /\ result.op = "sustainability_tips"
    /\ result.ret = 2
    /\ result.again = 2
    /\ today = 1
    /\ \E r \in user_stats : r.streak = 2 /\ r.last_login = DateStr(1)

Titles ==
    {"Eco Warrior", "Sustainability Star", "Green Enthusiast", "Eco Novice",
     "Beginner"}

\* C14: for every streak update_streak returns, get_achievement of
\* ecoeats.py, of app10.py and of backup/database.py give the same title,
\* one of the five, and the run shows that title.
C14_SameTitleEverywhere ==
    result.op \in {"update_streak", "sustainability_tips"}
       => /\ GetAchievement("ecoeats", result.ret) \in Titles
          /\ GetAchievement("app10", result.ret)
                = GetAchievement("ecoeats", result.ret)
          /\ GetAchievement("database", result.ret)
                = GetAchievement("ecoeats", result.ret)
          /\ result.op = "sustainability_tips"
                => result.achievement = GetAchievement("app10", result.ret)

\* a streak of 30 days, shown as Eco Warrior
C14_Witness ==
    /\ result.op = "sustainability_tips"
    /\ result.ret = 30
    /\ result.achievement = "Eco Warrior"

(***************************************************************************)
(* get_achievement on its own (SpecAchievement): the function applied to   *)
(* streaks from 0 to MaxStreak in each variant.                            *)
(***************************************************************************)
\* achievement = get_achievement(streak)
AchievementCall(streak) ==
    /\ result' = [op |-> "get_achievement", streak |-> streak,
                  ret |-> GetAchievement(variant, streak)]
    /\ UNCHANGED << today, user_stats,
                    variant, session, choice, food_waste, meals, goals,
                    challenges, community_posts, shown, users, columns, cache >>

SpecAchievement ==
    /\ InitStreak
    /\ [][ \E streak \in 0 .. MaxStreak : AchievementCall(streak) ]_vars

TitleRank(title) ==
    CASE title = "Eco Warrior" -> 4
      [] title = "Sustainability Star" -> 3
      [] title = "Green Enthusiast" -> 2
      [] title = "Eco Novice" -> 1
      [] title = "Beginner" -> 0
      [] OTHER -> -1

\* C13: get_achievement gives Eco Warrior from 30, Sustainability Star for
\* 20..29, Green Enthusiast for 10..19, Eco Novice for 5..9 and Beginner for
\* 0..4, and no smaller streak has a title of a higher tier.
C13_AchievementTiers ==
    result.op = "get_achievement"
       => /\ result.ret =
                 (CASE result.streak >= 30 -> "Eco Warrior"
                    [] result.streak \in 20 .. 29 -> "Sustainability Star"
                    [] result.streak \in 10 .. 19 -> "Green Enthusiast"
                    [] result.streak \in 5 .. 9 -> "Eco Novice"
                    [] result.streak \in 0 .. 4 -> "Beginner")
          /\ \A smaller \in 0 .. result.streak :
                TitleRank(GetAchievement(variant, smaller)) <= TitleRank(result.ret)

\* the list of ecoeats.py consulted at its second threshold
C13_Witness ==
    /\ variant = "ecoeats"
    /\ result.op = "get_achievement"
    /\ result.streak = 20
    /\ result.ret = "Sustainability Star"

(***************************************************************************)
(* The weekly challenge over more than a week (SpecChallenge): a session   *)
(* that stays on the page of sustainability_tips / display_weekly_challenge*)
(* while the days pass.                                                    *)
(***************************************************************************)
\* a run of the page, started by the button "Mark as Completed" or by
\* nothing: update_streak in main(), then the page
ChallengeRun(kind) ==
    LET uid == Uid(variant, session)
    IN  /\ kind = "Mark Challenge" => shown.page = "Sustainability" /\ shown.open
        /\ \E ai \in AiReplies, cur \in CurChoices(variant, uid, challenges) :
              LET ev == [kind |-> kind, ai |-> ai]
              IN  /\ challenges' = ChallengePage(variant, uid, challenges, ev, today, cur)
                  /\ user_stats' = UpdateStreak(variant, uid, user_stats, today).stats
                  /\ shown' = MainShown(session, "Sustainability", ev, cur)
                  /\ result' = [op |-> "display_weekly_challenge",
                                challenge |-> CurrentChallenge(variant, uid, challenges,
                                                               ev, today, cur)]
        /\ choice' = "Sustainability"
        /\ UNCHANGED << today, variant, session, food_waste, meals, goals,
                        community_posts, users, columns, cache >>

\* midnight passes
ChallengeTick ==
    /\ today < ChallengeClock
    /\ today' = today + 1
    /\ UNCHANGED << variant, session, choice, tables, shown, aux >>

\* the user has logged in and chosen the page
InitChallenge ==
    /\ variant \in Variants
    /\ session = IF Gate(variant) = "none" THEN EmptySession
                 ELSE LoginSession(variant, EmptySession,
                                   Credentials(variant)[1], Credentials(variant)[2])
    /\ choice = "Sustainability"
    /\ today = 0
    /\ food_waste = {}
    /\ meals = {}
    /\ goals = {}
    /\ challenges = {}
    /\ community_posts = {}
    /\ user_stats = {}
    /\ shown = Blank
    /\ users = {}
    /\ columns = Schema(variant)
    /\ result = NoResult
    /\ cache = NoCache

SpecChallenge ==
    /\ InitChallenge
    /\ [][
             \/ \E kind \in {"none", "Mark Challenge"} : ChallengeRun(kind)
             \/ ChallengeTick
         ]_vars

Ids(rows) == {r.id : r \in rows}

\* C15: a run of the challenge page inserts a challenge exactly when the
\* user has none or the one with the latest end_date ended before today;
\* the inserted row starts today, ends seven days later and is not
\* completed; otherwise nothing is inserted and the stored latest challenge
\* is the one displayed.
C15_NewChallengeWhenExpired ==
    [][ today' = today
          => LET mine == Stored(challenges)
                 added == {r \in challenges' : r.id \notin Ids(challenges)}
             IN  IF mine = {} \/ \A c \in Latest(mine) : ParseDate(c.end_date) < today
                 THEN /\ Cardinality(added) = 1
                      /\ Ids(challenges') = Ids(challenges) \cup Ids(added)
                      /\ \A r \in added :
                            /\ r \in Stored(challenges')
                            /\ r.start_date = DateStr(today)
                            /\ r.end_date = DateStr(today + ChallengeDays)
                            /\ ParseDate(r.end_date) = today + ChallengeDays
                            /\ r.completed = FALSE
                 ELSE /\ added = {}
                      /\ Ids(challenges') = Ids(challenges)
                      /\ result'.challenge \in Latest(mine)
      ]_vars

\* the challenge of 2024-02-28 ended on 2024-03-06; the run of 2024-03-07
\* stored a second one that ends on 2024-03-14
C15_Witness ==
    /\ today = 8
    /\ Cardinality(challenges) = 2
    /\ \E r \in challenges :
          r.id = 2 /\ r.start_date = DateStr(8) /\ r.end_date = DateStr(15)
             /\ ~r.completed
    /\ \E r \in challenges : r.id = 1 /\ r.end_date = DateStr(7)

\* C16: whenever a run shows "Congratulations on completing the
\* challenge!", the challenge it displays is stored with completed = TRUE
\* when the run ends, also when the run has just inserted that challenge.
C16_CongratulationsMeansStored ==
    shown.msg = "Congratulations on completing the challenge!"
       => \E r \in Stored(challenges) :
             /\ r.challenge = result.challenge.challenge
             /\ r.start_date = result.challenge.start_date
             /\ r.end_date = result.challenge.end_date
             /\ r.completed

(***************************************************************************)
(* The completed flags (SpecFlags): a session that moves between the page *)
(* of goal_setting and the page of the weekly challenge.                   *)
(***************************************************************************)
\* a run of goal_setting() with display_user_goals(): the page is chosen,
\* "Set Goal" is clicked, or the "Mark as Completed" of a goal the last run
\* showed with its button
GoalsRun(ev) ==
    LET uid == Uid(variant, session)
        \* a goal that was completed meanwhile has no button in this run
        live == IF ev.kind = "Mark Goal" /\ ev.id \notin OpenGoals(variant, uid, goals)
                THEN NoEvent("reply") ELSE ev
        after == GoalsPage(variant, uid, goals, live, today)
        \* SELECT * FROM goals runs after the INSERT and before the UPDATE
        fetched == IF live.kind = "Mark Goal" THEN goals ELSE after
    IN  /\ ev.kind = "Set Goal"
              => shown.page = "Goals" /\ Cardinality(Stored(goals)) < MaxGoals
        /\ ev.kind = "Mark Goal"
              => shown.page = "Goals" /\ ev.id \in result.buttons
        /\ goals' = after
        /\ user_stats' = UpdateStreak(variant, uid, user_stats, today).stats
        /\ choice' = "Goals"
        /\ shown' = MainShown(session, "Goals", live, NoRow)
        /\ result' = [op |-> "display_user_goals",
                      buttons |-> OpenGoals(variant, uid, fetched),
                      completed |-> Ids(Mine(variant, uid, fetched))
                                       \ OpenGoals(variant, uid, fetched),
                      clicked |-> IF live.kind = "Mark Goal" THEN live.id ELSE NoneId]
        /\ UNCHANGED << today, variant, session, food_waste, meals, challenges,
                        community_posts, users, columns, cache >>

SpecFlags ==
    /\ InitChallenge
    /\ [][
             \/ \E ev \in {NoEvent("reply")}
                          \cup {[kind |-> "Set Goal", type |-> type, goal |-> goal,
                                 ai |-> ai] : type \in GoalTypes, goal \in GoalTexts,
                                              ai \in AiReplies}
                          \cup {[kind |-> "Mark Goal", id |-> id, ai |-> "reply"]
                                   : id \in RowIds} : GoalsRun(ev)
             \/ \E kind \in {"none", "Mark Challenge"} : ChallengeRun(kind)
         ]_vars

Flipped(before, after) ==
    {r.id : r \in {x \in before : \E y \in after : y.id = x.id /\ y.completed # x.completed}}

CommunityRun(ev) ==
    LET uid == Uid(variant, session)
    IN  /\ ev.kind = "Submit Post"
              => shown.page = "Community" /\ Cardinality(community_posts) < MaxPosts
        /\ ev.kind = "Like"
              => /\ shown.page = "Community"
                 /\ \E r \in community_posts : r.id = ev.id /\ r.likes < MaxLikes
        /\ community_posts' = CommunityPage(variant, uid, community_posts, ev, today)
        /\ user_stats' = UpdateStreak(variant, uid, user_stats, today).stats
        /\ choice' = "Community"
        /\ shown' = MainShown(session, "Community", ev, NoRow)
        /\ result' = [op |-> "community_section",
                      clicked |-> IF ev.kind = "Like" THEN ev.id ELSE NoneId]
        /\ UNCHANGED << today, variant, session, food_waste, meals, goals, challenges,
                        users, columns, cache >>

SpecCommunity ==
    /\ InitChallenge
    /\ [][ \E ev \in {NoEvent("reply")}
                        \cup {[kind |-> "Submit Post", post |-> post, ai |-> "reply"]
                                 : post \in PostTexts}
                        \cup {[kind |-> "Like", id |-> id, ai |-> "reply"]
                                 : id \in 1 .. MaxPosts} : CommunityRun(ev)
         ]_vars

\* C18: a post enters the table with likes = 0; a click on the like button
\* of a post adds exactly 1 to its likes and leaves every other post as it
\* was; no step removes a post or lowers its likes.
C18_LikesCountClicks ==
    [][ /\ \A x \in community_posts' :
              x.id \notin Ids(community_posts) => x.likes = 0
        /\ \A r \in community_posts :
              \E x \in community_posts' :
                 /\ x.id = r.id
                 /\ x.likes >= r.likes
                 /\ x.likes # r.likes => x.id = result'.clicked
                 /\ x.id # result'.clicked => x = r
        /\ shown'.click = "Like"
              => \E r \in community_posts :
                    /\ r.id = result'.clicked
                    /\ [r EXCEPT !.likes = r.likes + 1] \in community_posts'
      ]_vars

\* two posts, the first liked twice and the second never
C18_Witness ==
    /\ shown.click = "Like"
    /\ result.clicked = 1
    /\ \E r \in community_posts : r.id = 1 /\ r.likes = 2
    /\ \E r \in community_posts : r.id = 2 /\ r.likes = 0

(***************************************************************************)
(* The handlers that store a reply of the model (SpecInsert): Log Meal,    *)
(* Set Goal and the creation of the weekly challenge, each with the        *)
(* outcome of the API call inside generate_ai_response.                    *)
(***************************************************************************)
\* the prompt each handler passes to generate_ai_response
PromptOf(kind) ==
    IF kind = "Log Meal" THEN "nutrition"
    ELSE IF kind = "Set Goal" THEN "recommendations"
    ELSE "challenge"

\* a run of `page` started by `kind`, where the API call, if one is made,
\* does o
AiRun(page, kind, o) ==
    LET uid == Uid(variant, session)
        calls == \/ kind # "none"
                 \/ page = "Sustainability"
                       /\ NeedsChallenge(variant, uid, challenges, today)
        hit == PromptOf(kind) \in DOMAIN cache
        g == IF ~calls THEN NoResult
             ELSE IF hit THEN [cache[PromptOf(kind)] EXCEPT !.api = NotCalled]
             ELSE Guarded("generate_ai_response", o)
    IN  /\ kind = "Log Meal" => page = "Healthy Eating" /\ shown.page = page
        /\ kind = "Set Goal" => page = "Goals" /\ shown.page = page
        /\ (o = NotCalled) <=> (~calls \/ hit)
        /\ calls => TotalRows < MaxStored
        /\ result' = g
        /\ cache' = IF calls /\ ~hit /\ g.raised = "none"
                    THEN cache @@ (PromptOf(kind) :> g) ELSE cache
        /\ user_stats' = UpdateStreak(variant, uid, user_stats, today).stats
        /\ choice' = page
        /\ IF calls /\ g.raised # "none"
           THEN /\ shown' = ErrorShown(kind, << >>)
                /\ UNCHANGED << meals, goals, challenges >>
           ELSE \E meal \in MealTexts, type \in GoalTypes, goal \in GoalTexts,
                   cur \in CurChoices(variant, uid, challenges) :
                   LET ev == [kind |-> kind, meal |-> meal, type |-> type,
                              goal |-> goal,
                              ai |-> IF calls THEN g.ret ELSE << >>]
                   IN  /\ meals' = IF page = "Healthy Eating"
                                   THEN HealthyEatingPage(variant, uid, meals, ev, today)
                                   ELSE meals
                       /\ goals' = IF page = "Goals"
                                   THEN GoalsPage(variant, uid, goals, ev, today)
                                   ELSE goals
                       /\ challenges' = IF page = "Sustainability"
                                        THEN ChallengePage(variant, uid, challenges,
                                                           ev, today, cur)
                                        ELSE challenges
                       /\ shown' = MainShown(session, page, ev, cur)
        /\ UNCHANGED << today, variant, session, food_waste, community_posts, users,
                        columns >>

SpecInsert ==
    /\ InitChallenge
    /\ [][ \E page \in {"Healthy Eating", "Goals", "Sustainability"},
              kind \in {"none", "Log Meal", "Set Goal"},
              o \in ApiOutcomes \cup {NotCalled} : AiRun(page, kind, o)
         ]_vars

Inserted(before, after) == {r \in after : r.id \notin Ids(before)}

ChallengeThread(s) ==
    LET uid == Uid(variant, session)
        cur == result.current_challenge[s]
    IN  /\ CASE result.pc[s] = "start" ->
                  /\ \E row \in CurChoices(variant, uid, challenges) :
                        result' = [result EXCEPT !.pc[s] = "fetched",
                                                 !.current_challenge[s] = row]
                  /\ challenges' = challenges
             [] result.pc[s] = "fetched" ->
                  IF cur.id = NoneId \/ ParseDate(cur.end_date) < today
                  THEN \E ai \in AiReplies :
                          /\ challenges' = challenges \cup
                                {Owned(variant, uid,
                                       [id |-> NewId(challenges), challenge |-> ai,
                                        start_date |-> DateStr(today),
                                        end_date |-> DateStr(today + ChallengeDays),
                                        completed |-> FALSE])}
                          /\ result' = [result EXCEPT !.pc[s] = "inserted"]
                  ELSE /\ challenges' = challenges
                       /\ result' = [result EXCEPT !.pc[s] = "displayed"]
             [] OTHER ->
                  /\ result' = [result EXCEPT !.pc[s] = "start",
                                              !.current_challenge[s] = NoRow]
                  /\ challenges' = challenges
        /\ UNCHANGED << today, variant, session, choice, food_waste, meals, goals,
                        community_posts, user_stats, shown, users, columns, cache >>

\* both sessions open the page, on the first day of the database or on the
\* day after its first challenge ended
InitRace ==
    /\ variant = "app17"
    /\ session = LoginSession(variant, EmptySession,
                              Credentials(variant)[1], Credentials(variant)[2])
    /\ choice = "Sustainability"
    /\ today \in {0, ChallengeDays + 1}
    /\ food_waste = {}
    /\ meals = {}
    /\ goals = {}
    /\ challenges \in
          IF today = 0 THEN {{}}
          ELSE {{[id |-> 1, challenge |-> ai, start_date |-> DateStr(0),
                  end_date |-> DateStr(ChallengeDays), completed |-> done]}
                   : ai \in AiReplies, done \in BOOLEAN}
    /\ community_posts = {}
    /\ user_stats = {}
    /\ shown = Blank
    /\ users = {}
    /\ columns = Schema(variant)
    /\ result = [op |-> "display_weekly_challenge",
                 pc |-> [s \in 1 .. MaxSessions |-> "start"],
                 current_challenge |-> [s \in 1 .. MaxSessions |-> NoRow]]
    /\ cache = NoCache

SpecRace ==
    /\ InitRace
    /\ [][ \E s \in 1 .. MaxSessions : ChallengeThread(s) ]_vars

\* C20: however the SELECTs and INSERTs of two sessions interleave, at most
\* one challenge is inserted, so that at most one stored challenge has
\* end_date >= today.
C20_OneCurrentChallenge ==
    Cardinality({r \in challenges : ParseDate(r.end_date) >= today}) <= 1

(***************************************************************************)
(* Sessions that call update_streak at the same time (SpecStreakRace).     *)
(* result holds, per session, the place of its thread in update_streak,    *)
(* the row its SELECT fetched and the value it returned, and in `base` the *)
(* table as it was when the day began.                                     *)
(***************************************************************************)
\* the next statement of the thread of session s: the SELECT with
\* fetchone(), then the branches with INSERT OR REPLACE and return, then
\* the end of the run, after which the session may run the script again
StreakThread(s) ==
    LET found == StatsOf(variant, DemoUserId, user_stats)
        \* update_streak continues from the row it fetched
        u == UpdateStreak(variant, DemoUserId,
                          IF result.fetched[s] = NoRow THEN {}
                          ELSE {result.fetched[s]}, today)
        wrote == result.fetched[s] = NoRow \/ u.stats # {result.fetched[s]}
    IN  /\ CASE result.pc[s] = "start" ->
                  /\ result' = [result EXCEPT
                                  !.pc[s] = "fetched",
                                  !.fetched[s] = IF found = {} THEN NoRow
                                                 ELSE CHOOSE r \in found : TRUE]
                  /\ user_stats' = user_stats
             [] result.pc[s] = "fetched" ->
                  /\ user_stats' = IF wrote
                                   THEN ReplaceStats(variant, DemoUserId, user_stats,
                                                     today, u.ret)
                                   ELSE user_stats
                  /\ result' = [result EXCEPT !.pc[s] = "returned", !.ret[s] = u.ret]
             [] OTHER ->
                  /\ result' = [result EXCEPT !.pc[s] = "start", !.fetched[s] = NoRow,
                                              !.ret[s] = 0]
                  /\ user_stats' = user_stats
        /\ UNCHANGED << today, variant, session, choice, food_waste, meals, goals,
                        challenges, community_posts, shown, users, columns, cache >>

\* midnight passes, or a day without a visit, while no run is in progress
StreakMidnight ==
    /\ today < RaceDays
    /\ \A s \in 1 .. MaxSessions : result.pc[s] = "start"
    /\ today' = today + 1
    /\ result' = [result EXCEPT !.base = user_stats]
    /\ UNCHANGED << variant, session, choice, tables, shown, users, columns, cache >>

\* the sessions are open and no run has begun
InitStreakRace ==
    /\ variant \in StreakVariants
    /\ session = EmptySession
    /\ choice = "Home"
    /\ today = 0
    /\ food_waste = {}
    /\ meals = {}
    /\ goals = {}
    /\ challenges = {}
    /\ community_posts = {}
    /\ user_stats = {}
    /\ shown = Blank
    /\ users = {}
    /\ columns = Schema(variant)
    /\ result = [op |-> "update_streak",
                 pc |-> [s \in 1 .. MaxSessions |-> "start"],
                 fetched |-> [s \in 1 .. MaxSessions |-> NoRow],
                 ret |-> [s \in 1 .. MaxSessions |-> 0],
                 base |-> {}]
    /\ cache = NoCache

SpecStreakRace ==
    /\ InitStreakRace
    /\ [][
             \/ \E s \in 1 .. MaxSessions : StreakThread(s)
             \/ StreakMidnight
         ]_vars

\* C21: however the SELECTs and INSERT OR REPLACEs of the sessions' calls
\* of one day interleave, every call returns the value a single call would
\* have returned, and the row stored once a call has returned holds that
\* streak with today's date.
C21_StreakOncePerDay ==
    result.op = "update_streak"
       => LET once == UpdateStreak(variant, DemoUserId, result.base, today).ret
          IN  /\ \A s \in 1 .. MaxSessions :
                    result.pc[s] = "returned"
                       => /\ result.ret[s] = once
                          /\ Cardinality(StreakRow(user_stats)) = 1
                          /\ \A r \in StreakRow(user_stats) :
                                r.streak = once /\ r.last_login = DateStr(today)
              /\ \A r \in StreakRow(user_stats) :
                    r.last_login = DateStr(today) => r.streak = once

\* both sessions fetched the row of the day before, both wrote, both
\* returned 2
C21_Witness ==
    /\ result.op = "update_streak"
    /\ today = 1
    /\ \A s \in 1 .. 2 :
          /\ result.pc[s] = "returned"
          /\ result.fetched[s] # NoRow
          /\ result.fetched[s].last_login = DateStr(0)
          /\ result.ret[s] = 2
    /\ \A r \in StreakRow(user_stats) : r.streak = 2

(***************************************************************************)
(* The memo of generate_ai_response (SpecAI).                              *)
(***************************************************************************)
\* C22: a call of generate_ai_response whose prompt has an entry in the
\* memo does not contact the API and returns the entry's value, the
\* fallback string if the stored call had failed; a call without an entry
\* contacts the API once and leaves an entry; no entry is ever dropped or
\* replaced.  So the API is contacted at most once for a prompt.
C22_OneApiCallPerPrompt ==
    [][ /\ \A q \in DOMAIN cache : q \in DOMAIN cache' /\ cache'[q] = cache[q]
        /\ result'.op = "generate_ai_response"
              => IF result'.prompt \in DOMAIN cache
                 THEN /\ result'.api = NotCalled
                      /\ result'.ret = cache[result'.prompt].ret
                      /\ cache[result'.prompt].api.kind \in {"raise", "null"}
                            => result'.ret = << Fallback >>
                      /\ cache' = cache
                 ELSE /\ result'.api # NotCalled
                      /\ DOMAIN cache' = DOMAIN cache \cup {result'.prompt}
                      /\ cache'[result'.prompt].api = result'.api
                      /\ cache'[result'.prompt].ret = result'.ret
      ]_vars

\* the second call for "tips", whose first call met a connection error: the
\* fallback again, the API not contacted
C22_Witness ==
    /\ result.op = "generate_ai_response"
    /\ result.prompt = "tips"
    /\ result.api = NotCalled
    /\ result.ret = << Fallback >>
    /\ "tips" \in DOMAIN cache
    /\ cache["tips"].api = Outcome("raise", << >>, "APIConnectionError")

=============================================================================
